---- MODULE Spec2Model ----
(***************************************************************************)
(* Model of bidsify (src/bidsify/functions.py): the walk over a source     *)
(* tree of <subject>_<session>/<CATEGORY>/<file> folders, the size-based   *)
(* classification of each folder's files (_rename_size), the per-session   *)
(* change log (_write_changelog), the copy loop and the error collector.   *)
(*                                                                         *)
(* Strings are sequences of one-character strings, so that str.split,      *)
(* str.lstrip, str.startswith, int(), sorted() and string concatenation    *)
(* are computed character by character.  A path is a sequence of           *)
(* components (os.path.join appends components, split('/') reads them).    *)
(* The source tree follows the documented layout: files live only in the   *)
(* category folders, two levels below the source root.                     *)
(***************************************************************************)
EXTENDS Integers, Sequences, FiniteSets, TLC

VARIABLES
  cfg,            \* the arguments of bidsify(...)
  pc,             \* "start", "walk", "done" or "aborted"
  error,          \* the exception that ended the run, or "none"
  todo,           \* subject directories os.walk has still to enter
  cur,            \* the subject directory being walked (NoDir at the root)
  seen,           \* category folders of cur already visited
  nfolders,       \* number of category folders visited so far
  made,           \* directories that exist under the destination root
  destFiles,      \* destination path -> content of the file there
  problem_files,  \* the error collector: sub -> ses -> label -> message
  report,         \* what the end-of-run report holds
  handed,         \* history: the (src, dst) arguments of every shutil.copy call
  opened,         \* history: every change-log path given to open(.., 'a')
  writes,         \* history: (path, content before, content after) of every write
  produced,       \* history: (sub, ses, prob_fs) of every folder whose problems were stored
  last            \* the folder handled last: its input and what _rename_size returned

vars == <<cfg, pc, error, todo, cur, seen, nfolders, made, destFiles,
          problem_files, report, handed, opened, writes, produced, last>>

----------------------------------------------------------------------------
(* Bounds of the model *)

MaxFolders == 2      \* category folders walked in one run
MaxRunFiles == 2     \* files listed in one folder of a whole-run behaviour
MaxFiles == 3        \* files listed in the folder given to _rename_size alone
MaxSessions == 2     \* largest n_sessions tried

----------------------------------------------------------------------------
(* Program constants *)

right_size == 28836192
RestLo == 110590352
RestHi == 110594352
McrLo == 77412752
McrHi == 77416752
SwmLo == 82942352
SwmHi == 82946352

----------------------------------------------------------------------------
(* Strings *)

None == <<>>            \* Python's None as a dict value (no path is empty)

\* The characters used, in ascending code-point order (str comparison).
Alphabet == <<"-", ".", "/", "0", "1", "2", "3", "7", "8", "9",
              "A", "C", "D", "E", "F", "G", "H", "I", "L", "M", "N", "O",
              "P", "R", "S", "T", "U", "X", "Y", "_",
              "a", "b", "c", "d", "e", "f", "g", "i", "k", "l", "n",
              "o", "q", "r", "s", "t", "u", "w">>

Code(c) == CHOOSE i \in 1..Len(Alphabet) : Alphabet[i] = c

Digits == <<"0", "1", "2", "3", "4", "5", "6", "7", "8", "9">>

IsDigit(c) == \E i \in 1..10 : Digits[i] = c

DigitVal(c) == (CHOOSE i \in 1..10 : Digits[i] = c) - 1

\* s < t for two str values (lexicographic on code points)
StrLess(s, t) ==
  \E k \in 1..(Len(t)) :
     /\ \A j \in 1..(k-1) : j <= Len(s) /\ s[j] = t[j]
     /\ \/ k = Len(s) + 1
        \/ k <= Len(s) /\ Code(s[k]) < Code(t[k])

\* s.startswith(p)
StartsWith(s, p) == Len(s) >= Len(p) /\ SubSeq(s, 1, Len(p)) = p

\* s.lstrip(c)
RECURSIVE LStrip(_, _)
LStrip(s, c) == IF s # <<>> /\ Head(s) = c THEN LStrip(Tail(s), c) ELSE s

\* s.split(sep) for a one-character separator: the list of fields
RECURSIVE SplitFrom(_, _, _)
SplitFrom(s, sep, field) ==
  IF s = <<>> THEN <<field>>
  ELSE IF Head(s) = sep THEN <<field>> \o SplitFrom(Tail(s), sep, <<>>)
  ELSE SplitFrom(Tail(s), sep, Append(field, Head(s)))

Split(s, sep) == SplitFrom(s, sep, <<>>)

\* int(s) succeeds: an optional sign and then decimal digits only
IntOk(s) ==
  LET body == IF s # <<>> /\ Head(s) = "-" THEN Tail(s) ELSE s
  IN  body # <<>> /\ \A i \in 1..Len(body) : IsDigit(body[i])

RECURSIVE DecVal(_, _)
DecVal(s, acc) == IF s = <<>> THEN acc ELSE DecVal(Tail(s), 10 * acc + DigitVal(Head(s)))

\* int(s), where IntOk(s)
IntOf(s) == IF Head(s) = "-" THEN 0 - DecVal(Tail(s), 0) ELSE DecVal(s, 0)

\* str(n) for n >= 0
RECURSIVE StrOf(_)
StrOf(n) == IF n < 10 THEN <<Digits[n + 1]>> ELSE Append(StrOf(n \div 10), Digits[(n % 10) + 1])

\* the str a path denotes: its components joined by "/" after a leading "/"
RECURSIVE Flat(_)
Flat(p) == IF p = <<>> THEN <<>> ELSE <<"/">> \o Head(p) \o Flat(Tail(p))

\* sorted(list of paths)
RECURSIVE Sorted(_)
Sorted(ps) ==
  IF ps = <<>> THEN <<>>
  ELSE LET m == CHOOSE i \in 1..Len(ps) :
                  \A j \in 1..Len(ps) : j = i \/ ~StrLess(Flat(ps[j]), Flat(ps[i])) \/ ps[j] = ps[i]
           rest == [k \in 1..(Len(ps) - 1) |-> IF k < m THEN ps[k] ELSE ps[k + 1]]
       IN  <<ps[m]>> \o Sorted(rest)

----------------------------------------------------------------------------
(* String literals of the source *)

S_sub == <<"s", "u", "b", "-">>
S_ses == <<"s", "e", "s", "-">>
S_anat == <<"a", "n", "a", "t">>
S_func == <<"f", "u", "n", "c">>
S_log == <<"l", "o", "g">>
S_ANATOMY == <<"A", "N", "A", "T", "O", "M", "Y">>
S_FUNCTIONAL == <<"F", "U", "N", "C", "T", "I", "O", "N", "A", "L">>
S_LOG == <<"L", "O", "G">>
S_DONTUSE == <<"D", "O", "N", "T", "U", "S", "E">>
S_T1w == <<"_", "a", "c", "q", "-", "M", "P", "R", "A", "G", "E", "_", "T", "1", "w", ".", "n", "i", "i">>
S_rest1 == <<"_", "t", "a", "s", "k", "-", "r", "e", "s", "t", "_", "r", "u", "n", "-", "0", "1", "_", "b", "o", "l", "d", ".", "n", "i", "i">>
S_rest5 == <<"_", "t", "a", "s", "k", "-", "r", "e", "s", "t", "_", "r", "u", "n", "-", "0", "5", "_", "b", "o", "l", "d", ".", "n", "i", "i">>
S_mcr == <<"_", "t", "a", "s", "k", "-", "m", "c", "r", "_", "r", "u", "n", "-", "0", "2", "_", "b", "o", "l", "d", ".", "n", "i", "i">>
S_swm == <<"_", "t", "a", "s", "k", "-", "s", "w", "m", "_", "r", "u", "n", "-", "0", "3", "_", "b", "o", "l", "d", ".", "n", "i", "i">>
S_dd == <<"_", "t", "a", "s", "k", "-", "d", "d", "_", "r", "u", "n", "-", "0", "4", "_", "b", "o", "l", "d", ".", "n", "i", "i">>
S_dotlog == <<".", "l", "o", "g">>
S_CHANGES == <<"C", "H", "A", "N", "G", "E", "S">>
L_Session == <<"S", "e", "s", "s", "i", "o", "n", " ", "?">>
L_Rest == <<"R", "e", "s", "t", "i", "n", "g", " ", "s", "t", "a", "t", "e">>
L_MCR == <<"M", "C", "R">>
L_SWM == <<"S", "W", "M">>
L_DD == <<"D", "D">>
L_Unmapped == <<"U", "n", "m", "a", "p", "p", "e", "d", " ", "f", "i", "l", "e", "s">>
L_Empty == <<>>

\* A message: the literal text and the value(s) concatenated to it, each
\* given as a path (a bare name is a one-component path).
Msg(text, arg) == [text |-> text, arg |-> arg]

----------------------------------------------------------------------------
(* Python dicts: path_maps and sizes_dict are sequences of (key, value)    *)
(* pairs in insertion order; prob_fs is a function label -> message.       *)

EmptyDict == [l \in {} |-> None]

\* d[k] = v on a function-dict
Put(d, k, v) == (k :> v) @@ d

\* path_maps[k] = v (k is already a key: the position is kept)
SetDst(pm, k, v) == [i \in DOMAIN pm |-> IF pm[i][1] = k THEN <<k, v>> ELSE pm[i]]

Keys(pm) == [i \in DOMAIN pm |-> pm[i][1]]

\* file.split('/')[-1]
Basename(p) == p[Len(p)]

\* os.path.dirname(p)
DirOf(p) == SubSeq(p, 1, Len(p) - 1)

\* [k for k, v in sizes_dict.items() if lo <= v < hi], i.e. v in range(lo, hi)
InRange(sizes_dict, lo, hi) ==
  LET Test(kv) == lo <= kv[2] /\ kv[2] < hi
  IN  Keys(SelectSeq(sizes_dict, Test))

Abs(x) == IF x < 0 THEN 0 - x ELSE x

\* min(sizes_dict.items(), key=lambda x: abs(right_size - x[1]))[1]:
\* the size of the first-listed item of least distance
MinSize(sizes_dict) ==
  LET d(i) == Abs(right_size - sizes_dict[i][2])
      m == CHOOSE i \in DOMAIN sizes_dict :
             /\ \A j \in DOMAIN sizes_dict : d(i) <= d(j)
             /\ \A j \in 1..(i - 1) : d(i) < d(j)
  IN  sizes_dict[m][2]

\* [k for k, v in sizes_dict.items() if v == size]
WithSize(sizes_dict, size) ==
  LET Test(kv) == kv[2] = size
  IN  Keys(SelectSeq(sizes_dict, Test))

HasExact(sizes_dict) == \E i \in DOMAIN sizes_dict : sizes_dict[i][2] = right_size

\* Mutation: the first file of the closest size rather than the last.
BestScanFirst(sizes_dict) ==
  IF HasExact(sizes_dict)
  THEN LET l == WithSize(sizes_dict, right_size) IN l[Len(l)]
  ELSE LET l == WithSize(sizes_dict, MinSize(sizes_dict)) IN l[1]

\* best_scan of the ANATOMY branch
BestScan(sizes_dict) ==
  IF HasExact(sizes_dict)
  THEN LET l == WithSize(sizes_dict, right_size) IN l[Len(l)]
  ELSE LET l == WithSize(sizes_dict, MinSize(sizes_dict)) IN l[Len(l)]

\* Mutation: the closest-match note is recorded whether or not a file has
\* the expected size.
AnatProbsAlways(sizes_dict) ==
  LET n == Basename(BestScan(sizes_dict))
  IN  Put(EmptyDict, n, Msg("No mprage of expected size. Used closest match: ", << <<n>> >>))

\* prob_fs after the ANATOMY branch
AnatProbs(sizes_dict) ==
  IF HasExact(sizes_dict) THEN EmptyDict
  ELSE LET n == Basename(BestScan(sizes_dict))
       IN  Put(EmptyDict, n, Msg("No mprage of expected size. Used closest match: ", << <<n>> >>))

\* os.path.join(destpath_abs, sub, session, 'anat', sub+'_'+session+'_'+'_acq-MPRAGE_T1w.nii')
AnatDest(destpath_abs, sub, session) ==
  destpath_abs \o <<sub, session, S_anat, sub \o <<"_">> \o session \o <<"_">> \o S_T1w>>

\* os.path.join(destpath_abs, sub, session, 'func', sub+suffix)
FuncDest(destpath_abs, sub, session, suffix) ==
  destpath_abs \o <<sub, session, S_func, sub \o suffix>>

\* Mutation: the folder's name (split('/')[-2]) instead of the file's.
LogDestFolderName(destpath_abs, sub, session, file) ==
  destpath_abs \o <<sub, session, S_log, Basename(DirOf(file))>>

\* os.path.join(destpath_abs, sub, session, 'log', file.split('/')[-1])
LogDest(destpath_abs, sub, session, file) ==
  destpath_abs \o <<sub, session, S_log, Basename(file)>>

\* Mutation: the two resting-state files are taken in listing order.
MapRestsUnsorted(pm, rests, destpath_abs, sub, session) ==
  IF Len(rests) = 2
  THEN SetDst(SetDst(pm, rests[1], FuncDest(destpath_abs, sub, session, S_rest1)),
              rests[2], FuncDest(destpath_abs, sub, session, S_rest5))
  ELSE pm

\* path_maps after "map resting state scans"
MapRests(pm, rests, destpath_abs, sub, session) ==
  IF Len(rests) = 2
  THEN LET rest1 == Sorted(rests)[1]
           rest2 == Sorted(rests)[2]
       IN  SetDst(SetDst(pm, rest1, FuncDest(destpath_abs, sub, session, S_rest1)),
                  rest2, FuncDest(destpath_abs, sub, session, S_rest5))
  ELSE pm

\* prob_fs after "map resting state scans"
RestProbs(rests) ==
  IF rests = <<>>
  THEN Put(EmptyDict, L_Rest, Msg("No scan files matching expected size for Resting State.", <<>>))
  ELSE IF Len(rests) = 1
  THEN Put(EmptyDict, L_Rest, Msg("Unable to determine which Resting State scan for file: ", <<rests[1]>>))
  ELSE IF Len(rests) = 2 THEN EmptyDict
  ELSE Put(EmptyDict, L_Rest, Msg("Unable to identify Resting State 1 vs 2 from choices: ", <<rests[1]>>))

\* the FUNCTIONAL branch: (path_maps, prob_fs)
Functional(pm, sizes_dict, destpath_abs, sub, session) ==
  LET rests == InRange(sizes_dict, RestLo, RestHi)
      mcrs == InRange(sizes_dict, McrLo, McrHi)
      swms == InRange(sizes_dict, SwmLo, SwmHi)
      Left(kv) == ~(RestLo <= kv[2] /\ kv[2] < RestHi) /\ ~(McrLo <= kv[2] /\ kv[2] < McrHi)
                  /\ ~(SwmLo <= kv[2] /\ kv[2] < SwmHi)
      leftovers == Keys(SelectSeq(sizes_dict, Left))
      pm1 == MapRests(pm, rests, destpath_abs, sub, session)
      pr1 == RestProbs(rests)
      pm2 == IF mcrs # <<>>
             THEN SetDst(pm1, mcrs[Len(mcrs)], FuncDest(destpath_abs, sub, session, S_mcr))
             ELSE pm1
      pr2 == IF mcrs # <<>> THEN pr1
             ELSE Put(pr1, L_MCR, Msg("No scan files matching expected size for MCR", <<>>))
      pm3 == IF swms # <<>>
             THEN SetDst(pm2, swms[Len(swms)], FuncDest(destpath_abs, sub, session, S_swm))
             ELSE pm2
      pr3 == IF swms # <<>> THEN pr2
             ELSE Put(pr2, L_SWM, Msg("No scan files matching expected size for SWM", <<>>))
      pm4 == IF Len(leftovers) = 1
             THEN SetDst(pm3, leftovers[1], FuncDest(destpath_abs, sub, session, S_dd))
             ELSE pm3
      pr4 == IF Len(leftovers) = 1 THEN pr3
             ELSE Put(pr3, L_DD, Msg("Unable to identify DD scan from choices: ", leftovers))
  IN  <<pm4, pr4>>

\* the LOG branch: every file keeps its name
RECURSIVE MapLogs(_, _, _, _, _)
MapLogs(pm, old_fps, destpath_abs, sub, session) ==
  IF old_fps = <<>> THEN pm
  ELSE MapLogs(SetDst(pm, Head(old_fps), LogDest(destpath_abs, sub, session, Head(old_fps))),
               Tail(old_fps), destpath_abs, sub, session)

\* {k: v for k, v in path_maps.items() if v is not None}
Filtered(pm) == LET Test(kv) == kv[2] # None IN SelectSeq(pm, Test)

\* os.path.join(destpath_abs, sub, session, 'log', log_name + '.log')
LogFile(destpath_abs, sub, session, log_name) ==
  destpath_abs \o <<sub, session, S_log, log_name \o S_dotlog>>

\* _rename_size up to its return or its call of _write_changelog.
\* entries: the listed files, [name, size] each; splitroot: the folder's path.
\* raised: "none" or the exception; filtered: whether the returned map went
\* through the filter; log_call: whether _write_changelog is called.
RenameSize(entries, splitroot, sub, ses, n_sessions, destpath_abs, log_changes, log_name) ==
  LET old_fps == [i \in DOMAIN entries |-> Append(splitroot, entries[i].name)]
      path_maps == [i \in DOMAIN entries |-> <<old_fps[i], None>>]
      sizes_dict == [i \in DOMAIN entries |-> <<old_fps[i], entries[i].size>>]
      session == S_ses \o ses
      folder == splitroot[Len(splitroot)]
      Ret(raised, pm, pr, filtered, log_call) ==
         [raised |-> raised, path_maps |-> pm, prob_fs |-> pr,
          filtered |-> filtered, log_call |-> log_call, session |-> session]
      Finish(pm, pr) ==
         LET unmapped == Keys(SelectSeq(pm, LAMBDA kv : kv[2] = None))
             pr2 == IF unmapped # <<>>
                    THEN Put(pr, L_Unmapped,
                             Msg("The following files were not moved and renamed: ", unmapped))
                    ELSE pr
         IN  Ret("none", Filtered(pm), pr2, TRUE, log_changes)
  IN  IF ~IntOk(ses) THEN Ret("ValueError", path_maps, EmptyDict, FALSE, FALSE)
      ELSE IF ~(IntOf(ses) <= n_sessions)
      THEN Ret("none", path_maps,
               Put(EmptyDict, L_Session, Msg("Unrecognized session number: ", << <<ses>> >>)),
               FALSE, FALSE)
      ELSE IF folder = S_ANATOMY
      THEN Finish(SetDst(path_maps, BestScan(sizes_dict), AnatDest(destpath_abs, sub, session)),
                  AnatProbs(sizes_dict))
      ELSE IF folder = S_FUNCTIONAL
      THEN LET r == Functional(path_maps, sizes_dict, destpath_abs, sub, session)
           IN  Finish(r[1], r[2])
      ELSE IF folder = S_LOG
      THEN Finish(MapLogs(path_maps, old_fps, destpath_abs, sub, session), EmptyDict)
      ELSE Ret("none", path_maps,
               Put(EmptyDict, L_Empty, Msg("unrecognized scan or log folder: ", << <<folder>> >>)),
               FALSE, FALSE)

----------------------------------------------------------------------------
(* The filesystem and the inputs *)

OrigRoot == << <<"o">> >>      \* origpath_abs
DestRoot == << <<"d">> >>      \* destpath_abs

IsPrefix(s, t) == Len(s) <= Len(t) /\ SubSeq(t, 1, Len(s)) = s

\* File contents are sequences of lines <<kind, path, path>>.
DateLine == <<"date", None, None>>
MovedLine(new_path, old_path) == <<"moved", new_path, old_path>>
BytesOf(src) == << <<"bytes", src, None>> >>    \* the content of a source file

NoFiles == [p \in {} |-> <<>>]

ContentAt(files, p) == IF p \in DOMAIN files THEN files[p] ELSE <<>>

\* subject directories under the source root
D_7_1 == <<"7", "_", "1">>
D_7_01 == <<"7", "_", "0", "1">>
D_7_1_x == <<"7", "_", "1", "_", "b">>
D_7_3 == <<"7", "_", "3">>
D_7_0 == <<"7", "_", "0">>
D_8_2 == <<"8", "_", "2">>
D_9 == <<"9">>
D_DONTUSE == S_DONTUSE \o <<"_", "1">>

\* the listings of the source root that are tried
Trees == {{D_7_1}, {D_7_1, D_7_01}, {D_7_01, D_7_1_x}, {D_7_3, D_8_2}, {D_7_0}, {D_9},
          {D_8_2, D_DONTUSE}}

\* category folder names
S_OTHER == <<"D", "T", "I">>
CatNames == {S_ANATOMY, S_FUNCTIONAL, S_LOG, S_OTHER, S_DONTUSE}

\* file names
N_a == <<"a">>
N_b == <<"b">>
N_ab == <<"a", "b">>
N_hidden == <<".", "d">>
N_log == S_CHANGES \o S_dotlog

\* the files a folder of a whole-run behaviour may list
RunFiles == {[name |-> N_a, size |-> right_size], [name |-> N_a, size |-> RestLo],
             [name |-> N_log, size |-> RestLo], [name |-> N_hidden, size |-> RestLo]}

\* the files the folder given to _rename_size alone may list: any of the
\* names with any of the sizes that matter in a folder of that category
N_c == <<"c">>
Names == {N_a, N_b, N_ab, N_c}
AnatSizes == {right_size, right_size - 2, right_size + 2, right_size + 9}
FuncSizes == {RestLo, RestHi, McrLo, SwmLo}
SizesFor(cat) == IF cat = S_ANATOMY THEN AnatSizes
                 ELSE IF cat = S_FUNCTIONAL THEN FuncSizes
                 ELSE {RestLo}
ClassifyFiles(cat) == [name : Names, size : SizesFor(cat)]

\* the listings of n of the files, of distinct names, in any order
RECURSIVE ListingsOfLen(_, _)
ListingsOfLen(files, n) ==
  IF n = 0 THEN {<<>>}
  ELSE UNION {{Append(l, f) : f \in {g \in files : \A i \in DOMAIN l : l[i].name # g.name}} :
                l \in ListingsOfLen(files, n - 1)}

\* the listings of one folder: up to max of the files
Listings(files, max) == UNION {ListingsOfLen(files, n) : n \in 1..max}

DefaultScanTypes == <<S_anat, S_func, S_log>>

DefaultCfg ==
  [n_sessions |-> 2, scan_types |-> DefaultScanTypes, detect_size |-> TRUE,
   log_changes |-> TRUE, log_name |-> S_CHANGES, log_errors |-> TRUE, verbose |-> TRUE]

\* the argument lists tried: the defaults, and each option changed in turn
Configs ==
  {[DefaultCfg EXCEPT !.n_sessions = n] : n \in 1..MaxSessions}
  \cup {[DefaultCfg EXCEPT !.scan_types = <<S_anat, S_func>>],
        [DefaultCfg EXCEPT !.detect_size = FALSE],
        [DefaultCfg EXCEPT !.log_changes = FALSE],
        [DefaultCfg EXCEPT !.log_errors = FALSE],
        [DefaultCfg EXCEPT !.verbose = FALSE]}

NoDir == <<>>

NoRet == [raised |-> "unset", path_maps |-> <<>>, prob_fs |-> EmptyDict,
          filtered |-> FALSE, log_call |-> FALSE, session |-> <<>>]

NoLast == [splitroot |-> <<>>, entries |-> <<>>, sub |-> <<>>, ses |-> <<>>, ret |-> NoRet]

NoReport == [kind |-> "none", problems |-> EmptyDict]

----------------------------------------------------------------------------
(* bidsify *)

\* dirs[:] = [d for d in dirs if not d.startswith('DONTUSE')]
Kept(dirs) == {d \in dirs : ~StartsWith(d, S_DONTUSE)}

\* every directory os.makedirs(path) leaves in existence
MakeDirs(path) == {SubSeq(path, 1, n) : n \in 1..Len(path)}

\* the directories made when i == 0
Scaffold(dirs, c) ==
  UNION {MakeDirs(DestRoot \o <<S_sub \o Split(direc, "_")[1], S_ses \o StrOf(ses + 1),
                                c.scan_types[t]>>) :
           <<direc, t, ses>> \in dirs \X (1..Len(c.scan_types)) \X (0..(c.n_sessions - 1))}

\* _write_changelog: the lines appended
ChangelogBlock(path_maps) ==
  <<DateLine>> \o [i \in DOMAIN path_maps |-> MovedLine(path_maps[i][2], path_maps[i][1])]

\* for old_filepath, new_filepath in path_map.items(): print, shutil.copy
\* st: [files, handed, writes, error]
RECURSIVE CopyLoop(_, _, _, _)
CopyLoop(pm, st, dirs, verbose) ==
  IF pm = <<>> THEN st
  ELSE LET old == Head(pm)[1]
           new == Head(pm)[2]
       IN  IF verbose /\ new = None
           THEN [st EXCEPT !.error = "TypeError"]       \* str + None in print
           ELSE IF new = None
           THEN [st EXCEPT !.error = "TypeError", !.handed = Append(@, <<old, new>>)]
           ELSE IF DirOf(new) \notin dirs
           THEN [st EXCEPT !.error = "FileNotFoundError", !.handed = Append(@, <<old, new>>)]
           ELSE CopyLoop(Tail(pm),
                         [st EXCEPT !.handed = Append(@, <<old, new>>),
                                    !.writes = Append(@, <<new, ContentAt(st.files, new), BytesOf(old)>>),
                                    !.files = Put(@, new, BytesOf(old))],
                         dirs, verbose)

\* problem_files after lines 112-116
Store(pf, sub, ses, prob_fs) ==
  IF prob_fs = EmptyDict THEN pf
  ELSE IF sub \notin DOMAIN pf THEN Put(pf, sub, Put(EmptyDict, ses, prob_fs))
  ELSE [pf EXCEPT ![sub] = Put(@, ses, prob_fs)]

\* file_list = [f for f in files if not f.startswith('.')]
FileList(files) == LET Test(f) == ~StartsWith(f.name, <<".">>) IN SelectSeq(files, Test)

\* sub, ses = 'sub-'+splitroot[-2].split('_')[0], splitroot[-2].split('_')[1].lstrip('0')
SubOf(splitroot) == S_sub \o Split(splitroot[Len(splitroot) - 1], "_")[1]
SesOf(splitroot) == LStrip(Split(splitroot[Len(splitroot) - 1], "_")[2], "0")
HasSes(splitroot) == Len(Split(splitroot[Len(splitroot) - 1], "_")) >= 2

Init ==
  /\ cfg \in Configs
  /\ pc = "start"
  /\ error = "none"
  /\ todo \in Trees
  /\ cur = NoDir
  /\ seen = {}
  /\ nfolders = 0
  /\ made = {}
  /\ destFiles = NoFiles
  /\ problem_files = EmptyDict
  /\ report = NoReport
  /\ handed = <<>>
  /\ opened = <<>>
  /\ writes = <<>>
  /\ produced = <<>>
  /\ last = NoLast

\* line 72: raise ValueError('detect_size must be True. ...')
ConfigError ==
  /\ pc = "start"
  /\ ~cfg.detect_size
  /\ pc' = "aborted"
  /\ error' = "ValueError"
  /\ UNCHANGED <<cfg, todo, cur, seen, nfolders, made, destFiles, problem_files, report,
                 handed, opened, writes, produced, last>>

\* the first iteration of the walk (i == 0): the source root, which holds no files
WalkRoot ==
  /\ pc = "start"
  /\ cfg.detect_size
  /\ pc' = "walk"
  /\ todo' = Kept(todo)
  /\ made' = made \cup Scaffold(Kept(todo), cfg)
  /\ UNCHANGED <<cfg, error, cur, seen, nfolders, destFiles, problem_files, report,
                 handed, opened, writes, produced, last>>

\* the walk enters the next subject directory, which holds no files itself
WalkSubjectDir ==
  /\ pc = "walk"
  /\ \E d \in todo :
       /\ cur' = d
       /\ todo' = todo \ {d}
  /\ seen' = {}
  /\ UNCHANGED <<cfg, pc, error, nfolders, made, destFiles, problem_files, report,
                 handed, opened, writes, produced, last>>

\* the walk visits category folder cat of the current subject directory,
\* which lists files: lines 84-116 for that folder
WalkFolder(cat, files) ==
  /\ pc = "walk"
  /\ cur # NoDir
  /\ cat \in Kept(CatNames) \ seen
  /\ nfolders < MaxFolders
  /\ seen' = seen \cup {cat}
  /\ UNCHANGED <<cfg, todo, cur, made, report>>
  /\ LET file_list == FileList(files)
         splitroot == OrigRoot \o <<cur, cat>>
     IN  IF file_list = <<>>
         THEN /\ nfolders' = nfolders + 1
              /\ UNCHANGED <<pc, error, destFiles, problem_files, handed, opened,
                             writes, produced, last>>
         ELSE IF ~HasSes(splitroot)
         THEN /\ pc' = "aborted"
              /\ error' = "IndexError"
              /\ nfolders' = nfolders + 1
              /\ last' = [splitroot |-> splitroot, entries |-> file_list, sub |-> <<>>,
                          ses |-> <<>>, ret |-> NoRet]
              /\ UNCHANGED <<destFiles, problem_files, handed, opened, writes, produced>>
         ELSE
           \E r \in {RenameSize(file_list, splitroot, SubOf(splitroot), SesOf(splitroot),
                                cfg.n_sessions, DestRoot, cfg.log_changes, cfg.log_name)} :
           LET sub == SubOf(splitroot)
               ses == SesOf(splitroot)
               filename == LogFile(DestRoot, sub, r.session, cfg.log_name)
               logged == r.raised = "none" /\ r.log_call
               log_fails == logged /\ DirOf(filename) \notin made
               before == ContentAt(destFiles, filename)
               after == before \o ChangelogBlock(r.path_maps)
               files1 == IF logged /\ ~log_fails THEN Put(destFiles, filename, after)
                         ELSE destFiles
               writes1 == IF logged /\ ~log_fails
                          THEN Append(writes, <<filename, before, after>>) ELSE writes
               st0 == [files |-> files1, handed |-> handed, writes |-> writes1,
                       error |-> "none"]
           IN  \E st \in {IF r.raised # "none" THEN [st0 EXCEPT !.error = r.raised]
                          ELSE IF log_fails THEN [st0 EXCEPT !.error = "FileNotFoundError"]
                          ELSE CopyLoop(r.path_maps, st0, made, cfg.verbose)} :
               /\ nfolders' = nfolders + 1
               /\ last' = [splitroot |-> splitroot, entries |-> file_list, sub |-> sub,
                           ses |-> ses, ret |-> r]
               /\ opened' = IF logged THEN Append(opened, filename) ELSE opened
               /\ destFiles' = st.files
               /\ handed' = st.handed
               /\ writes' = st.writes
               /\ error' = st.error
               /\ IF st.error # "none"
                  THEN /\ pc' = "aborted"
                       /\ UNCHANGED <<problem_files, produced>>
                  ELSE /\ pc' = pc
                       /\ problem_files' = Store(problem_files, sub, ses, r.prob_fs)
                       /\ produced' = Append(produced, <<sub, ses, r.prob_fs>>)

\* the walk is over: lines 118-136, the error log and the completion report
Finish ==
  /\ pc = "walk"
  /\ todo = {}
  /\ pc' = "done"
  /\ report' = IF problem_files = EmptyDict THEN NoReport
               ELSE [kind |-> IF cfg.log_errors THEN "file" ELSE "console",
                     problems |-> problem_files]
  /\ UNCHANGED <<cfg, error, todo, cur, seen, nfolders, made, destFiles, problem_files,
                 handed, opened, writes, produced, last>>

Next ==
  \/ ConfigError
  \/ WalkRoot
  \/ WalkSubjectDir
  \/ \E cat \in CatNames, files \in Listings(RunFiles, MaxRunFiles) :
        WalkFolder(cat, files)
  \/ Finish

Spec == Init /\ [][Next]_vars

----------------------------------------------------------------------------
(* _rename_size alone, on one folder drawn from the bounded inputs *)

ClassifyDirs == {D_7_01, D_7_3}

InitClassify ==
  /\ cfg \in {[DefaultCfg EXCEPT !.n_sessions = n] : n \in {MaxSessions}}
  /\ pc = "classify"
  /\ error = "none"
  /\ todo = {}
  /\ cur = NoDir
  /\ seen = {}
  /\ nfolders = 0
  /\ made = {}
  /\ destFiles = NoFiles
  /\ problem_files = EmptyDict
  /\ report = NoReport
  /\ handed = <<>>
  /\ opened = <<>>
  /\ writes = <<>>
  /\ produced = <<>>
  /\ \E d \in ClassifyDirs, cat \in Kept(CatNames) :
     \E l \in Listings(ClassifyFiles(cat), MaxFiles) :
       last = [splitroot |-> OrigRoot \o <<d, cat>>, entries |-> l,
               sub |-> SubOf(OrigRoot \o <<d, cat>>), ses |-> SesOf(OrigRoot \o <<d, cat>>),
               ret |-> NoRet]

\* path_map, prob_fs = _rename_size(file_list, splitroot, sub, ses, n_sessions, ...)
Classify ==
  /\ pc = "classify"
  /\ pc' = "classified"
  /\ last' = [last EXCEPT !.ret = RenameSize(last.entries, last.splitroot, last.sub, last.ses,
                                             cfg.n_sessions, DestRoot, cfg.log_changes,
                                             cfg.log_name)]
  /\ UNCHANGED <<cfg, error, todo, cur, seen, nfolders, made, destFiles, problem_files,
                 report, handed, opened, writes, produced>>

NextClassify == Classify

SpecClassify == InitClassify /\ [][NextClassify]_vars

----------------------------------------------------------------------------
(* Vocabulary of the properties *)

Returned == last.ret.raised = "none"           \* _rename_size returned to bidsify
FolderName == last.splitroot[Len(last.splitroot)]
Classified(cat) == Returned /\ last.ret.filtered /\ FolderName = cat

\* the (src, dst) pairs of the returned map whose dst is set
Mapped == Filtered(last.ret.path_maps)

\* the listed files, as (path, size) pairs in listing order
Listed == [i \in DOMAIN last.entries |->
             <<Append(last.splitroot, last.entries[i].name), last.entries[i].size>>]

Dist(i) == Abs(right_size - Listed[i][2])
Closest == {i \in DOMAIN Listed : \A j \in DOMAIN Listed : Dist(i) <= Dist(j)}
Exact == {i \in DOMAIN Listed : Listed[i][2] = right_size}
Max(S) == CHOOSE i \in S : \A j \in S : j <= i
Min(S) == CHOOSE i \in S : \A j \in S : i <= j

ClosestNote == "No mprage of expected size. Used closest match: "
HasClosestNote == \E l \in DOMAIN last.ret.prob_fs : last.ret.prob_fs[l].text = ClosestNote

----------------------------------------------------------------------------
\* C1: every (source, destination) pair that reaches the copy step has a
\* destination that is not None; a folder on which _rename_size exits early
\* hands no pair to the copy step.
C1_CopyStepGetsNoNullDestination ==
  /\ Returned => \A i \in DOMAIN last.ret.path_maps : last.ret.path_maps[i][2] # None
  /\ \A i \in DOMAIN handed : handed[i][2] # None

\* C2: a classification problem never ends the run: no folder that recorded a
\* problem makes the walk raise, and once the run is done every problem a
\* folder produced is in the end-of-run report.
C2_ProblemsAreNonFatal ==
  /\ ~(pc = "aborted" /\ error = "TypeError" /\ last.ret.prob_fs # EmptyDict)
  /\ pc = "done" =>
       \A i \in DOMAIN produced :
         \A l \in DOMAIN produced[i][3] :
           /\ produced[i][1] \in DOMAIN report.problems
           /\ produced[i][2] \in DOMAIN report.problems[produced[i][1]]
           /\ l \in DOMAIN report.problems[produced[i][1]][produced[i][2]]

\* the problems of (sub, ses) merged label by label over the first n folders
RECURSIVE MergedByLabel(_, _, _)
MergedByLabel(sub, ses, n) ==
  IF n = 0 THEN EmptyDict
  ELSE IF produced[n][1] = sub /\ produced[n][2] = ses
  THEN produced[n][3] @@ MergedByLabel(sub, ses, n - 1)
  ELSE MergedByLabel(sub, ses, n - 1)

\* C3: the collector holds a message for (subject, session, label) exactly
\* when some processed folder of that subject and session produced a problem
\* under that label, and it is the message of the last such folder.
C3_CollectorKeepsEveryLabel ==
  \A i \in DOMAIN produced :
    LET sub == produced[i][1]
        ses == produced[i][2]
        all == MergedByLabel(sub, ses, Len(produced))
    IN  all # EmptyDict =>
          /\ sub \in DOMAIN problem_files
          /\ ses \in DOMAIN problem_files[sub]
          /\ DOMAIN problem_files[sub][ses] = DOMAIN all
          /\ \A l \in DOMAIN all : problem_files[sub][ses][l] = all[l]

\* a session's change log: <dest>/sub-*/ses-*/log/<log_name>.log
IsChangeLog(p) == Len(p) = 5 /\ p[4] = S_log /\ p[5] = cfg.log_name \o S_dotlog

\* C4: the change log is append-only: every write to a change-log path (an
\* append of _write_changelog or a copy into the log directory) leaves the
\* content it had before as a prefix of its content after.
C4_ChangeLogAppendOnly ==
  \A i \in DOMAIN writes :
    IsChangeLog(writes[i][1]) => IsPrefix(writes[i][2], writes[i][3])

\* C5: every destination of an ANATOMY or FUNCTIONAL file is
\* dest/sub-ID/ses-N/<category>/<name>, where <name> is the subject token, the
\* session token and the role token joined by single underscores.
C5_DestinationPattern ==
  (Classified(S_ANATOMY) \/ Classified(S_FUNCTIONAL)) =>
    \A i \in DOMAIN Mapped :
      LET dst == Mapped[i][2]
          fields == Split(dst[Len(dst)], "_")
      IN  /\ DirOf(dst) = DestRoot \o <<last.sub, S_ses \o last.ses,
                                        IF FolderName = S_ANATOMY THEN S_anat ELSE S_func>>
          /\ Len(fields) >= 3
          /\ fields[1] = last.sub
          /\ fields[2] = S_ses \o last.ses
          /\ \A k \in DOMAIN fields : fields[k] # <<>>

C7_LastOfAllTied ==
  (Classified(S_ANATOMY) /\ Exact = {}) => Mapped[1][1] = Listed[Max(Closest)][1]

\* C7 as amended: with no file of the target size, the file chosen for T1w is
\* the last-listed of the files whose size equals that of the first-listed
\* file at least distance from the target.
C7_LastOfFirstClosestSize ==
  (Classified(S_ANATOMY) /\ Exact = {}) =>
    LET same == {i \in DOMAIN Listed : Listed[i][2] = Listed[Min(Closest)][2]}
    IN  /\ Len(Mapped) = 1
        /\ Mapped[1][1] = Listed[Max(same)][1]

C7_Witness ==
  /\ pc = "classified"
  /\ Classified(S_ANATOMY)
  /\ Exact = {}
  /\ Closest = {1, 2, 3}
  /\ Listed[1][2] = Listed[2][2]
  /\ Listed[3][2] # Listed[1][2]
  /\ Mapped[1][1] = Listed[2][1]

\* the files whose size is in the resting-state window, and the others
RestSet == {Listed[i][1] : i \in {j \in DOMAIN Listed : RestLo <= Listed[j][2] /\ Listed[j][2] < RestHi}}

DstOf(pm, src) == {pm[i][2] : i \in {j \in DOMAIN pm : pm[j][1] = src}}

\* every listing order of the files of the folder handled last
Reorderings ==
  LET n == Len(last.entries)
  IN  {[i \in 1..n |-> last.entries[f[i]]] :
         f \in {g \in [1..n -> 1..n] : \A a, b \in 1..n : a # b => g[a] # g[b]}}

\* C8: FUNCTIONAL with a valid session: of exactly two files of resting-state
\* size the one whose path sorts first goes to rest run-01 and the other to
\* rest run-05, whatever the listing order; with any other number of them
\* none is mapped and a problem is recorded under 'Resting state'.
C8_RestingState ==
  Classified(S_FUNCTIONAL) =>
    LET session == S_ses \o last.ses
        run01 == FuncDest(DestRoot, last.sub, session, S_rest1)
        run05 == FuncDest(DestRoot, last.sub, session, S_rest5)
    IN  IF Cardinality(RestSet) = 2
        THEN /\ \E p, q \in RestSet :
                  /\ StrLess(Flat(p), Flat(q))
                  /\ DstOf(Mapped, p) = {run01}
                  /\ DstOf(Mapped, q) = {run05}
             /\ \A l \in Reorderings :
                  \E r \in {RenameSize(l, last.splitroot, last.sub, last.ses, cfg.n_sessions,
                                       DestRoot, cfg.log_changes, cfg.log_name)} :
                     \A p \in RestSet : DstOf(r.path_maps, p) = DstOf(Mapped, p)
             /\ L_Rest \notin DOMAIN last.ret.prob_fs
        ELSE /\ \A p \in RestSet : DstOf(Mapped, p) = {}
             /\ L_Rest \in DOMAIN last.ret.prob_fs

C8_Witness ==
  /\ pc = "classified"
  /\ Classified(S_FUNCTIONAL)
  /\ Cardinality(RestSet) = 2
  /\ Len(last.entries) = 3
  /\ Listed[3][1] \in RestSet
  /\ \E i \in {1, 2} : Listed[i][1] \in RestSet /\ StrLess(Flat(Listed[3][1]), Flat(Listed[i][1]))

\* C9: every destination given to shutil.copy and every change log opened
\* lies in a directory the scaffolding made.
C9_TargetsAreScaffolded ==
  /\ \A i \in DOMAIN handed : handed[i][2] # None => DirOf(handed[i][2]) \in made
  /\ \A i \in DOMAIN opened : DirOf(opened[i]) \in made

\* C10 as claimed: over a run no two distinct source files are copied to the
\* same destination path.
C10_NoSharedDestination ==
  \A i, j \in DOMAIN handed :
    (handed[i][2] # None /\ handed[i][2] = handed[j][2]) => handed[i][1] = handed[j][1]

\* the folder of a source file, and what bidsify resolves it to
SrcFolder(src) == DirOf(src)
Resolved(src) == <<SubOf(SrcFolder(src)), SesOf(SrcFolder(src)), src[Len(src) - 1]>>

\* C10 as amended: two distinct source files are copied to the same
\* destination only from two different folders that resolve to the same
\* subject, session and category; never from one folder.
C10_SharedOnlyAcrossSameSession ==
  \A i, j \in DOMAIN handed :
    (handed[i][2] # None /\ handed[i][2] = handed[j][2] /\ handed[i][1] # handed[j][1]) =>
       /\ SrcFolder(handed[i][1]) # SrcFolder(handed[j][1])
       /\ Resolved(handed[i][1]) = Resolved(handed[j][1])

C10_Witness ==
  /\ pc = "done"
  /\ Len(handed) >= 3
  /\ \E i, j \in DOMAIN handed :
       /\ handed[i][2] = handed[j][2]
       /\ handed[i][1] # handed[j][1]
  /\ \E i, j \in DOMAIN handed :
       /\ i # j
       /\ SrcFolder(handed[i][1]) = SrcFolder(handed[j][1])

====
